---- MODULE Spec2Model ----
(***************************************************************************)
(* Model of the ethereum-abi decoding library: the ABI type grammar        *)
(* (src/src/types.rs), the value decoder (src/src/values.rs), the event    *)
(* log decoder (src/src/event.rs) and the signatures, selectors and event  *)
(* topics (src/src/abi.rs, src/src/event.rs).                              *)
(*                                                                         *)
(* Representation.  A byte is an integer 0..255, a buffer a sequence of    *)
(* bytes, a U256 / H256 its 32 big-endian bytes.  A usize is a TLA+        *)
(* integer read as a 64-bit two's complement number: u < 2^63 is the       *)
(* integer u, and u >= 2^63 is the negative integer u - 2^64.  Unsigned    *)
(* addition is then integer addition, and the carry out of bit 63 (the     *)
(* overflow that a debug build panics on and a release build wraps) is     *)
(* computed by Overflows.                                                  *)
(***************************************************************************)
EXTENDS Integers, Sequences, FiniteSets, TLC

VARIABLES
    overflow_checks,  \* build profile: TRUE = overflow checks compiled in (debug)
    call,             \* the library call made: its name and arguments
    ret               \* the outcome of that call

vars == <<overflow_checks, call, ret>>

-----------------------------------------------------------------------------
(* Bytes, words and usize arithmetic                                       *)

WordSize == 32

Zeros(n) == [i \in 1..n |-> 0]

\* The 32-byte big-endian word of a number below 2^16.
Word(n) == Zeros(30) \o <<n \div 256, n % 256>>

\* A 32-byte word holding the given bytes followed by zero padding.
PadRight(bytes) == bytes \o Zeros(WordSize - Len(bytes))

\* Outcomes of a call: a returned Ok, a returned Err, or a panic (abort).
Panic(why) == [kind |-> "panic", why |-> why]
Err(msg) == [kind |-> "err", msg |-> msg]

\* a + b on usize carries out of bit 63.
Overflows(a, b) == \/ (a < 0 /\ b < 0)
                   \/ ((a < 0 \/ b < 0) /\ a + b >= 0)

\* `a + b` on usize: a panic where overflow checks are compiled in, the
\* wrapped sum otherwise.
add(a, b) ==
    IF overflow_checks /\ Overflows(a, b)
    THEN Panic("attempt to add with overflow")
    ELSE [kind |-> "ok", v |-> a + b]

\* `&bs[from..to]`: the slice, or the index panic of core::slice.
slice(buf, from, to) ==
    IF from >= 0 /\ to >= 0 /\ from <= to /\ to <= Len(buf)
    THEN [kind |-> "ok", bytes |-> SubSeq(buf, from + 1, to)]
    ELSE Panic("slice index out of range")

\* Sequencing: the continuation K on an Ok r; an Err or a panic ends the call
\* (the `?` operator, and unwinding).
Bind(r, K(_)) == IF r.kind = "ok" THEN K(r) ELSE r

\* `&bs[at..(at + n)]`
read(buf, at, n) == Bind(add(at, n), LAMBDA end : slice(buf, at, end.v))

\* The value of a big-endian byte string, for strings of at most 3
\* significant bytes.
RECURSIVE BeValue(_)
BeValue(bytes) ==
    IF bytes = <<>> THEN 0
    ELSE 256 * BeValue(SubSeq(bytes, 1, Len(bytes) - 1)) + bytes[Len(bytes)]

\* A usize that is neither below 2^30 nor within 2^30 of 2^64: every address
\* computed from it lies beyond any buffer and no addition of a buffer-sized
\* number to it overflows, so one representative stands for all of them.
UsizeFar == 2^30

\* U256::as_usize: panics when the number does not fit 64 bits.
as_usize(word) ==
    LET hi == SubSeq(word, 1, 24)
        mid == SubSeq(word, 25, 28)
        lo == BeValue(SubSeq(word, 29, 32))
    IN  IF hi # Zeros(24) THEN Panic("Integer overflow when casting to usize")
        ELSE IF mid = Zeros(4) /\ word[29] < 64 THEN [kind |-> "ok", v |-> lo]
        ELSE IF mid = [i \in 1..4 |-> 255] /\ word[29] >= 192
             THEN [kind |-> "ok",
                   v |-> -(BeValue([i \in 1..4 |-> 255 - word[28 + i]]) + 1)]
        ELSE [kind |-> "ok", v |-> UsizeFar]

-----------------------------------------------------------------------------
(* Types (src/src/types.rs)                                                *)

TypeUint(size) == [tag |-> "Uint", size |-> size]
TypeInt(size) == [tag |-> "Int", size |-> size]
TypeAddress == [tag |-> "Address"]
TypeBool == [tag |-> "Bool"]
TypeString == [tag |-> "String"]
TypeFixedBytes(size) == [tag |-> "FixedBytes", size |-> size]
TypeBytes == [tag |-> "Bytes"]
TypeFixedArray(ty, size) == [tag |-> "FixedArray", elem |-> ty, size |-> size]
TypeArray(ty) == [tag |-> "Array", elem |-> ty]
TypeTuple(fields) == [tag |-> "Tuple", fields |-> fields]

\* Type::is_dynamic
RECURSIVE is_dynamic(_)
is_dynamic(ty) ==
    CASE ty.tag \in {"String", "Bytes", "Array"} -> TRUE
      [] ty.tag = "FixedArray" -> is_dynamic(ty.elem)
      [] ty.tag = "Tuple" -> \E i \in 1..Len(ty.fields) : is_dynamic(ty.fields[i])
      [] OTHER -> FALSE

-----------------------------------------------------------------------------
(* Values and the decoder (src/src/values.rs)                              *)

ValueUint(word, size) == [tag |-> "Uint", word |-> word, size |-> size]
ValueInt(word, size) == [tag |-> "Int", word |-> word, size |-> size]
ValueAddress(bytes) == [tag |-> "Address", bytes |-> bytes]
ValueBool(b) == [tag |-> "Bool", b |-> b]
ValueString(bytes) == [tag |-> "String", bytes |-> bytes]
ValueBytes(bytes) == [tag |-> "Bytes", bytes |-> bytes]
ValueFixedBytes(bytes) == [tag |-> "FixedBytes", bytes |-> bytes]
ValueArray(elems) == [tag |-> "Array", elems |-> elems]

Ok(value, consumed) == [kind |-> "ok", value |-> value, consumed |-> consumed]

\* Mutant of padded32_size: the size is not padded.
padded32_size_unpadded(size) == size

\* Value::padded32_size
padded32_size(size) ==
    LET r == size % 32 IN
    IF r = 0 THEN size ELSE size + 32 - r

\* String::from_utf8 accepts exactly the well-formed UTF-8 byte strings.
RECURSIVE from_utf8(_)
from_utf8(bytes) ==
    LET n == Len(bytes)
        Cont(i) == i <= n /\ bytes[i] >= 128 /\ bytes[i] <= 191
        Rest(k) == from_utf8(SubSeq(bytes, k + 1, n))
        b == bytes[1]
    IN  IF n = 0 THEN TRUE
        ELSE IF b < 128 THEN Rest(1)
        ELSE IF b >= 194 /\ b <= 223 THEN Cont(2) /\ Rest(2)
        ELSE IF b = 224 THEN Cont(2) /\ bytes[2] >= 160 /\ Cont(3) /\ Rest(3)
        ELSE IF b = 237 THEN Cont(2) /\ bytes[2] <= 159 /\ Cont(3) /\ Rest(3)
        ELSE IF b >= 225 /\ b <= 239 THEN Cont(2) /\ Cont(3) /\ Rest(3)
        ELSE IF b = 240 THEN Cont(2) /\ bytes[2] >= 144 /\ Cont(3) /\ Cont(4) /\ Rest(4)
        ELSE IF b = 244 THEN Cont(2) /\ bytes[2] <= 143 /\ Cont(3) /\ Cont(4) /\ Rest(4)
        ELSE IF b >= 241 /\ b <= 243 THEN Cont(2) /\ Cont(3) /\ Cont(4) /\ Rest(4)
        ELSE FALSE

\* The bytes of the word at `at` that H160::from_slice is given.
address_len == 20

\* The unsigned order on usize.
ULess(a, b) == IF (a < 0) = (b < 0) THEN a < b ELSE b < 0

\* `U256::from_big_endian(&bs[at..(at + 32)]).as_usize()`
read_usize(buf, at) == Bind(read(buf, at, 32), LAMBDA w : as_usize(w.bytes))

RECURSIVE decode(_, _, _, _)
RECURSIVE decode_elems(_, _, _, _, _, _, _, _)

\* The try_fold over 0..size of the FixedArray branch: `i` elements are
\* decoded into `acc`, having consumed `total_consumed`.
decode_elems(buf, ty, base_addr, at, size, i, acc, total_consumed) ==
    IF ~ULess(i, size) THEN [kind |-> "ok", values |-> acc, consumed |-> total_consumed]
    ELSE Bind(add(at, total_consumed), LAMBDA cur :
         Bind(decode(buf, ty, base_addr, cur.v), LAMBDA r :
         Bind(add(total_consumed, r.consumed), LAMBDA tot :
         decode_elems(buf, ty, base_addr, at, size, i + 1, Append(acc, r.value), tot.v))))

\* The branches Uint, Int, Address, Bool and FixedBytes of Value::decode.
decode_scalar(buf, ty, base_addr, at) ==
    Bind(add(base_addr, at), LAMBDA a :
        CASE ty.tag = "Uint" ->
                Bind(read(buf, a.v, 32), LAMBDA w : Ok(ValueUint(w.bytes, ty.size), 32))
          [] ty.tag = "Int" ->
                Bind(read(buf, a.v, 32), LAMBDA w : Ok(ValueInt(w.bytes, ty.size), 32))
          [] ty.tag = "Address" ->
                Bind(read(buf, a.v, address_len), LAMBDA w : Ok(ValueAddress(w.bytes), 32))
          [] ty.tag = "Bool" ->
                Bind(read(buf, a.v, 32), LAMBDA w : Ok(ValueBool(w.bytes = Word(1)), 32))
          [] ty.tag = "FixedBytes" ->
                Bind(read(buf, a.v, ty.size),
                     LAMBDA w : Ok(ValueBytes(w.bytes), padded32_size(ty.size))))

\* The branch Bytes of Value::decode.
decode_bytes(buf, base_addr, at) ==
    Bind(add(base_addr, at), LAMBDA a :
    Bind(read_usize(buf, a.v), LAMBDA offset :
    Bind(add(base_addr, offset.v), LAMBDA a2 :
    Bind(read_usize(buf, a2.v), LAMBDA bytes_len :
    Bind(add(a2.v, 32), LAMBDA a3 :
    Bind(read(buf, a3.v, bytes_len.v), LAMBDA payload :
    \* consumes only the first 32 bytes, i.e. the offset pointer
    Ok(ValueBytes(payload.bytes), 32)))))))

\* The addressing of the elements of a fixed array: (base_addr + offset, 0)
\* with the offset read at `at` when the elements are dynamic, (base_addr, at)
\* otherwise.
fixed_array_addr(buf, elem, base_addr, at) ==
    IF is_dynamic(elem)
    THEN Bind(read_usize(buf, at), LAMBDA offset :
         Bind(add(base_addr, offset.v), LAMBDA b :
         [kind |-> "ok", base_addr |-> b.v, at |-> 0]))
    ELSE [kind |-> "ok", base_addr |-> base_addr, at |-> at]

\* Value::decode
decode(buf, ty, base_addr, at) ==
    CASE ty.tag \in {"Uint", "Int", "Address", "Bool", "FixedBytes"} ->
            decode_scalar(buf, ty, base_addr, at)
      [] ty.tag = "FixedArray" ->
            Bind(fixed_array_addr(buf, ty.elem, base_addr, at), LAMBDA p :
            Bind(decode_elems(buf, ty.elem, p.base_addr, p.at, ty.size, 0, <<>>, 0),
                 LAMBDA r : Ok(ValueArray(r.values),
                               IF is_dynamic(ty.elem) THEN 32 ELSE r.consumed)))
      [] ty.tag = "String" ->
            Bind(add(base_addr, at), LAMBDA a :
            Bind(decode(buf, TypeBytes, base_addr, a.v), LAMBDA r :
            IF from_utf8(r.value.bytes) THEN Ok(ValueString(r.value.bytes), r.consumed)
            ELSE Err("invalid utf-8")))
      [] ty.tag = "Bytes" -> decode_bytes(buf, base_addr, at)
      [] ty.tag = "Array" ->
            Bind(add(base_addr, at), LAMBDA a :
            Bind(read_usize(buf, a.v), LAMBDA offset :
            Bind(add(base_addr, offset.v), LAMBDA a2 :
            Bind(read_usize(buf, a2.v), LAMBDA array_len :
            Bind(decode(buf, TypeFixedArray(ty.elem, array_len.v), a2.v, 32),
                 LAMBDA r : Ok(r.value, 32))))))
      [] ty.tag = "Tuple" -> Panic("not yet implemented")

\* Mutant of next_at: the cursor advances by one word per value.
next_at_one_word(at, consumed) == add(at, 32)

\* The step of decode_from_slice's try_fold: the cursor after a value.
next_at(at, consumed) == add(at, consumed)

\* The try_fold of Value::decode_from_slice from its i-th type on.
RECURSIVE decode_fold(_, _, _, _, _)
decode_fold(buf, types, i, acc, at) ==
    IF i > Len(types) THEN [kind |-> "ok", values |-> acc]
    ELSE Bind(decode(buf, types[i], 0, at), LAMBDA r :
         Bind(next_at(at, r.consumed), LAMBDA nxt :
         decode_fold(buf, types, i + 1, Append(acc, r.value), nxt.v)))

\* Value::decode_from_slice
decode_from_slice(buf, types) == decode_fold(buf, types, 1, <<>>, 0)

-----------------------------------------------------------------------------
(* Event log decoding (src/src/event.rs)                                   *)

Param(name, type_, indexed) == [name |-> name, type_ |-> type_, indexed |-> indexed]

Event(name, inputs, anonymous) == [name |-> name, inputs |-> inputs, anonymous |-> anonymous]

\* input.indexed.unwrap_or(false), indexed being None, Some(false) or Some(true)
is_indexed(param) == param.indexed = "Some(true)"

\* Mutant of is_encoded_to_keccak: strings are not taken as hashed.
is_encoded_to_keccak_no_string(ty) == ty.tag \in {"FixedArray", "Array", "Bytes", "Tuple"}

\* Event::is_encoded_to_keccak
is_encoded_to_keccak(ty) == ty.tag \in {"FixedArray", "Array", "Bytes", "String", "Tuple"}

\* The types of the inputs that are not indexed, in declaration order.
RECURSIVE non_indexed_types(_)
non_indexed_types(inputs) ==
    IF inputs = <<>> THEN <<>>
    ELSE (IF is_indexed(Head(inputs)) THEN <<>> ELSE <<Head(inputs).type_>>)
         \o non_indexed_types(Tail(inputs))

\* Mutant of strip_event_topic: the first topic is dropped for anonymous
\* events too.
strip_always(event, tps) ==
    IF Len(tps) >= 1 THEN [kind |-> "ok", topics |-> Tail(tps)]
    ELSE IF event.anonymous THEN [kind |-> "ok", topics |-> tps]
    ELSE Err("missing event topic")

\* Mutant of strip_event_topic: the first topic is kept as a value.
strip_nothing(event, tps) ==
    IF ~event.anonymous /\ Len(tps) < 1 THEN Err("missing event topic")
    ELSE [kind |-> "ok", topics |-> tps]

\* The topics that carry values: topics.get(1..) unless the event is anonymous.
strip_event_topic(event, tps) ==
    IF ~event.anonymous
    THEN IF Len(tps) >= 1 THEN [kind |-> "ok", topics |-> Tail(tps)]
         ELSE Err("missing event topic")
    ELSE [kind |-> "ok", topics |-> tps]

\* The value of an indexed input, from its topic.
decode_topic(ty, topic) ==
    IF is_encoded_to_keccak(ty) THEN [kind |-> "ok", value |-> ValueFixedBytes(topic)]
    ELSE Bind(decode_from_slice(topic, <<ty>>), LAMBDA r :
         IF r.values = <<>> THEN Err("no value decoded from topics entry")
         ELSE [kind |-> "ok", value |-> r.values[1]])

\* Mutant of pop_front: the queue is consumed from its back.
pop_back(queue) ==
    IF queue = <<>> THEN Err("empty")
    ELSE [kind |-> "ok", val |-> queue[Len(queue)], rest |-> SubSeq(queue, 1, Len(queue) - 1)]

\* VecDeque::pop_front(...).ok_or_else(...): the element and the rest, or the
\* error of an empty queue.
pop_front(queue) ==
    IF queue = <<>> THEN Err("empty")
    ELSE [kind |-> "ok", val |-> Head(queue), rest |-> Tail(queue)]

\* The error kind of an exhausted queue.
ok_or_else(r, msg) == IF r.kind = "ok" THEN r ELSE Err(msg)

\* Mutant of decoded_params: topics left in the queue are an error.
decoded_params_no_surplus(topics_values, decoded) ==
    IF topics_values # <<>> THEN Err("surplus topics entries")
    ELSE [kind |-> "ok", params |-> decoded]

\* Ok(DecodedParams::from(decoded)) after the loop, whatever is left in the
\* queue of topics.
decoded_params(topics_values, decoded) == [kind |-> "ok", params |-> decoded]

\* The loop over self.inputs of decode_data_from_slice.
RECURSIVE decode_inputs(_, _, _, _)
decode_inputs(inputs, topics_values, data_values, decoded) ==
    IF inputs = <<>> THEN decoded_params(topics_values, decoded)
    ELSE IF is_indexed(Head(inputs))
    THEN Bind(ok_or_else(pop_front(topics_values), "insufficient topics entries"),
              LAMBDA top :
         Bind(decode_topic(Head(inputs).type_, top.val), LAMBDA v :
         decode_inputs(Tail(inputs), top.rest, data_values,
                       Append(decoded, <<Head(inputs), v.value>>))))
    ELSE Bind(ok_or_else(pop_front(data_values), "insufficient data values"),
              LAMBDA dat :
         decode_inputs(Tail(inputs), topics_values, dat.rest,
                       Append(decoded, <<Head(inputs), dat.val>>)))

\* Event::decode_data_from_slice
decode_data_from_slice(event, tps, buf) ==
    Bind(strip_event_topic(event, tps), LAMBDA stripped :
    Bind(decode_from_slice(buf, non_indexed_types(event.inputs)), LAMBDA data_values :
    decode_inputs(event.inputs, stripped.topics, data_values.values, <<>>)))

-----------------------------------------------------------------------------
(* Signatures, selectors and event topics (src/src/abi.rs,                 *)
(* src/src/event.rs).  A signature is a string.                            *)

Function(name, inputs, outputs, state_mutability) ==
    [name |-> name, inputs |-> inputs, outputs |-> outputs,
     state_mutability |-> state_mutability]

\* Mutant of join: the separator is followed by a space.
RECURSIVE join_spaced(_, _)
join_spaced(parts, sep) ==
    IF parts = <<>> THEN ""
    ELSE IF Len(parts) = 1 THEN parts[1]
    ELSE parts[1] \o sep \o " " \o join_spaced(Tail(parts), sep)

\* [String]::join(sep)
RECURSIVE join(_, _)
join(parts, sep) ==
    IF parts = <<>> THEN ""
    ELSE IF Len(parts) = 1 THEN parts[1]
    ELSE parts[1] \o sep \o join(Tail(parts), sep)

\* Type::to_string, the canonical text of a type.
RECURSIVE to_string(_)
to_string(ty) ==
    CASE ty.tag = "Uint" -> "uint" \o ToString(ty.size)
      [] ty.tag = "Int" -> "int" \o ToString(ty.size)
      [] ty.tag = "Address" -> "address"
      [] ty.tag = "Bool" -> "bool"
      [] ty.tag = "String" -> "string"
      [] ty.tag = "FixedBytes" -> "bytes" \o ToString(ty.size)
      [] ty.tag = "Bytes" -> "bytes"
      [] ty.tag = "FixedArray" -> to_string(ty.elem) \o "[" \o ToString(ty.size) \o "]"
      [] ty.tag = "Array" -> to_string(ty.elem) \o "[]"
      [] ty.tag = "Tuple" ->
            "(" \o join([i \in 1..Len(ty.fields) |-> to_string(ty.fields[i])], ",") \o ")"

\* self.inputs.iter().map(|param| param.type_.to_string()).collect()
input_types(inputs) == [i \in 1..Len(inputs) |-> to_string(inputs[i].type_)]

\* Keccak::v256 of a message: the 32-byte digest, kept as the term
\* keccak256(message); two digests are equal when their messages are.
keccak256(message) == [keccak256 |-> message]

\* keccak_out[0..4]: the first four bytes of a digest.
first_four_bytes(digest) == [bytes |-> <<0, 4>>, of |-> digest]

\* Function::signature
function_signature(fun) == fun.name \o "(" \o join(input_types(fun.inputs), ",") \o ")"

\* Function::method_id
method_id(fun) == first_four_bytes(keccak256(function_signature(fun)))

\* Event::signature
event_signature(event) == event.name \o "(" \o join(input_types(event.inputs), ",") \o ")"

\* Event::topic
event_topic(event) == keccak256(event_signature(event))

-----------------------------------------------------------------------------
(* The type grammar (src/src/types.rs, mod parsers).  A text is a sequence *)
(* of one-character strings; a parser returns its output and the rest of   *)
(* the text, or an error.                                                  *)

Digits == <<"0", "1", "2", "3", "4", "5", "6", "7", "8", "9">>

IsDigit(c) == \E d \in 1..10 : Digits[d] = c

DigitValue(c) == (CHOOSE d \in 1..10 : Digits[d] = c) - 1

POk(out, rest) == [ok |-> TRUE, out |-> out, rest |-> rest]
PErr == [ok |-> FALSE]

\* nom tag(t) and char(c): the text starts with t.
tag(t, text) ==
    IF Len(text) >= Len(t) /\ SubSeq(text, 1, Len(t)) = t
    THEN POk(t, SubSeq(text, Len(t) + 1, Len(text)))
    ELSE PErr

\* The number of leading digits of the text.
RECURSIVE DigitRun(_)
DigitRun(text) ==
    IF text # <<>> /\ IsDigit(Head(text)) THEN 1 + DigitRun(Tail(text)) ELSE 0

RECURSIVE DropZeros(_)
DropZeros(ds) == IF ds # <<>> /\ Head(ds) = "0" THEN DropZeros(Tail(ds)) ELSE ds

RECURSIVE Decimal(_)
Decimal(ds) ==
    IF ds = <<>> THEN 0 ELSE 10 * Decimal(SubSeq(ds, 1, Len(ds) - 1)) + DigitValue(ds[Len(ds)])

\* The decimal digits of usize::MAX, 2^64 - 1.
UsizeMaxDigits ==
    <<"1", "8", "4", "4", "6", "7", "4", "4", "0", "7",
      "3", "7", "0", "9", "5", "5", "1", "6", "1", "5">>

\* Lexicographic order of two digit strings of the same length.
RECURSIVE DigitsLeq(_, _)
DigitsLeq(a, b) ==
    IF a = <<>> THEN TRUE
    ELSE IF Head(a) # Head(b) THEN DigitValue(Head(a)) < DigitValue(Head(b))
    ELSE DigitsLeq(Tail(a), Tail(b))

\* str::parse::<usize> of a non-empty digit string: an error above usize::MAX.
\* Numbers of up to 9 significant digits are exact, larger ones that fit a
\* usize are represented by UsizeFar.
str_parse(ds) ==
    LET sig == DropZeros(ds) IN
    IF Len(sig) <= 9 THEN [ok |-> TRUE, v |-> Decimal(sig)]
    ELSE IF Len(sig) < 20 \/ (Len(sig) = 20 /\ DigitsLeq(sig, UsizeMaxDigits))
         THEN [ok |-> TRUE, v |-> UsizeFar]
    ELSE [ok |-> FALSE]

\* Sequencing of parsers: the continuation K on the success r, the error
\* otherwise (the `?` operator on an IResult).
AndThen(r, K(_)) == IF r.ok THEN K(r) ELSE PErr

\* nom alt: the first success.
OrElse(r, alternative) == IF r.ok THEN r ELSE alternative

\* nom verify: the success r if its output satisfies the check.
Verify(r, Check(_)) == IF r.ok /\ Check(r.out) THEN r ELSE PErr

\* The success r with its output mapped.
MapOut(r, F(_)) == IF r.ok THEN POk(F(r.out), r.rest) ELSE PErr

\* recognize(many1(digit1)): the leading digits, at least one.
recognize_digits(text, n) ==
    IF n = 0 THEN PErr ELSE POk(SubSeq(text, 1, n), SubSeq(text, n + 1, Len(text)))

\* map_res: the parsed number, or an error when str::parse fails.
map_res(v, rest) == IF v.ok THEN POk(v.v, rest) ELSE PErr

\* parsers::parse_integer: map_res(recognize(many1(digit1)), str::parse)
parse_integer(text) ==
    AndThen(recognize_digits(text, DigitRun(text)),
            LAMBDA r : map_res(str_parse(r.out), r.rest))

\* Mutant of check_int_size: any size of 1 to 256 bits is taken.
check_int_size_any_width(i) == i > 0 /\ i <= 256

\* parsers::check_int_size
check_int_size(i) == i > 0 /\ i <= 256 /\ i % 8 = 0

\* parsers::check_fixed_bytes_size
check_fixed_bytes_size(i) == i > 0 /\ i <= 32

\* parsers::parse_sized
parse_sized(t, text) == AndThen(tag(t, text), LAMBDA r : parse_integer(r.rest))

\* parsers::parse_uint
parse_uint(text) ==
    MapOut(Verify(parse_sized(<<"u", "i", "n", "t">>, text), check_int_size), TypeUint)

\* parsers::parse_int
parse_int(text) ==
    MapOut(Verify(parse_sized(<<"i", "n", "t">>, text), check_int_size), TypeInt)

\* parsers::parse_address
parse_address(text) ==
    MapOut(tag(<<"a", "d", "d", "r", "e", "s", "s">>, text), LAMBDA o : TypeAddress)

\* parsers::parse_bool
parse_bool(text) == MapOut(tag(<<"b", "o", "o", "l">>, text), LAMBDA o : TypeBool)

\* parsers::parse_string
parse_string(text) ==
    MapOut(tag(<<"s", "t", "r", "i", "n", "g">>, text), LAMBDA o : TypeString)

\* parsers::parse_bytes
parse_bytes(text) ==
    AndThen(tag(<<"b", "y", "t", "e", "s">>, text),
            LAMBDA r : OrElse(MapOut(Verify(parse_integer(r.rest), check_fixed_bytes_size),
                                     TypeFixedBytes),
                              POk(TypeBytes, r.rest)))

\* parsers::parse_simple_type: the first alternative that succeeds.
parse_simple_type(text) ==
    OrElse(parse_uint(text),
    OrElse(parse_int(text),
    OrElse(parse_bytes(text),
    OrElse(parse_string(text),
    OrElse(parse_address(text),
           parse_bool(text))))))

\* delimited(char('['), opt(parse_integer), char(']')): the size between the
\* brackets, or none.
parse_suffix(text) ==
    AndThen(tag(<<"[">>, text),
            LAMBDA open :
                OrElse(AndThen(parse_integer(open.rest),
                               LAMBDA n : MapOut(tag(<<"]">>, n.rest),
                                                 LAMBDA o : [some |-> TRUE, v |-> n.out])),
                       MapOut(tag(<<"]">>, open.rest), LAMBDA o : [some |-> FALSE])))

\* many1(delimited(...)) after its first suffix: the sizes of the leading
\* bracket suffixes and the rest of the text.
RECURSIVE many_suffixes(_, _)
many_suffixes(text, sizes) ==
    OrElse(AndThen(parse_suffix(text),
                   LAMBDA r : many_suffixes(r.rest, Append(sizes, r.out))),
           POk(sizes, text))

\* The closure array_from_size of parse_array.
array_from_size(ty, size) ==
    IF size.some THEN TypeFixedArray(ty, size.v) ELSE TypeArray(ty)

\* Mutant of fold_sizes: the suffixes are applied from the right, so that the
\* leftmost of them is the outermost.
RECURSIVE fold_sizes_right(_, _, _)
fold_sizes_right(ty, sizes, i) ==
    IF i > Len(sizes) THEN ty
    ELSE array_from_size(fold_sizes_right(ty, sizes, i + 1), sizes[i])

\* The fold of parse_array: sizes[i..] applied onto ty.
RECURSIVE fold_sizes(_, _, _)
fold_sizes(ty, sizes, i) ==
    IF i > Len(sizes) THEN ty
    ELSE fold_sizes(array_from_size(ty, sizes[i]), sizes, i + 1)

\* parsers::parse_array
parse_array(text) ==
    AndThen(parse_simple_type(text),
            LAMBDA base :
                AndThen(parse_suffix(base.rest),
                        LAMBDA first :
                            MapOut(many_suffixes(first.rest, <<first.out>>),
                                   LAMBDA sizes :
                                       fold_sizes(array_from_size(base.out, sizes[1]),
                                                  sizes, 2))))

RECURSIVE parse_type(_)
RECURSIVE parse_members(_, _)

\* separated_list1(char(','), parse_type) after its first member: the member
\* types parsed so far are `types`; a separator not followed by a type is left
\* unconsumed.
parse_members(text, types) ==
    OrElse(AndThen(tag(<<",">>, text),
                   LAMBDA comma :
                       AndThen(parse_type(comma.rest),
                               LAMBDA m : parse_members(m.rest, Append(types, m.out)))),
           POk(types, text))

\* parsers::parse_tuple
parse_tuple(text) ==
    AndThen(tag(<<"(">>, text),
            LAMBDA open :
                AndThen(parse_type(open.rest),
                        LAMBDA first :
                            AndThen(parse_members(first.rest, <<first.out>>),
                                    LAMBDA members :
                                        MapOut(tag(<<")">>, members.rest),
                                               LAMBDA o : TypeTuple(members.out)))))

\* parsers::parse_type: alt((parse_tuple, parse_array, parse_simple_type))
parse_type(text) ==
    OrElse(parse_tuple(text), OrElse(parse_array(text), parse_simple_type(text)))

\* Mutant of parse_exact_type: the rest of the input is not looked at.
parse_exact_type_prefix(text) == parse_type(text)

\* parsers::parse_exact_type: exact!(input, parse_type)
parse_exact_type(text) ==
    AndThen(parse_type(text), LAMBDA r : IF r.rest = <<>> THEN r ELSE PErr)

-----------------------------------------------------------------------------
(* Inputs of the calls                                                     *)

MaxWords == 3
MaxInputs == 3
MaxTopics == 4
MaxSuffixes == 3
MaxSize == 264

\* 2^64 - 32 as a word: an offset that wraps a non-zero base address.
WordWrap == Zeros(24) \o <<255, 255, 255, 255, 255, 255, 255, 224>>

\* "abc" right-padded, as the payload of a string; read as a number it does
\* not fit a usize.
WordAbc == PadRight(<<97, 98, 99>>)

Alphabet == {Word(0), Word(1), Word(32), Word(64), WordAbc, WordWrap}

RECURSIVE Concat(_)
Concat(words) == IF words = <<>> THEN <<>> ELSE Head(words) \o Concat(Tail(words))

\* A buffer with its last `cut` bytes missing.
Truncate(buf, cut) == SubSeq(buf, 1, IF Len(buf) >= cut THEN Len(buf) - cut ELSE 0)

Buffers ==
    { Truncate(Concat(ws), cut) :
        ws \in UNION { [1..n -> Alphabet] : n \in 0..MaxWords }, cut \in {0, 12} }

TypeLists ==
    { <<>>,
      <<TypeUint(256)>>, <<TypeInt(8)>>, <<TypeAddress>>, <<TypeBool>>,
      <<TypeFixedBytes(4)>>, <<TypeBytes>>, <<TypeString>>,
      <<TypeArray(TypeUint(256))>>, <<TypeFixedArray(TypeUint(256), 2)>>,
      <<TypeFixedArray(TypeBytes, 1)>>, <<TypeArray(TypeBytes)>>,
      <<TypeTuple(<<TypeUint(256)>>)>>, <<TypeArray(TypeTuple(<<TypeBool>>))>>,
      <<TypeString, TypeUint(256)>>, <<TypeBytes, TypeAddress>>,
      <<TypeFixedArray(TypeUint(256), 2), TypeBool>>,
      <<TypeFixedBytes(4), TypeUint(256), TypeBool>>,
      <<TypeUint(256), TypeTuple(<<TypeBool>>)>> }

\* The call of the test decode_many: f("abc", 5, [[1, 2], [3]]).
DecodeManyTypes ==
    <<TypeString, TypeUint(32), TypeFixedArray(TypeArray(TypeUint(32)), 2)>>

DecodeManyInput ==
    Concat(<<Word(96), Word(5), Word(160), Word(3), WordAbc, Word(64), Word(160),
             Word(2), Word(1), Word(2), Word(1), Word(3)>>)

\* A uint256 and bytes[1][1] = [["abc"]]: the outer fixed array is based at
\* 64, the inner one at 96, the bytes at 128.
NestedFixedTypes ==
    <<TypeUint(256), TypeFixedArray(TypeFixedArray(TypeBytes, 1), 1)>>

NestedFixedInput ==
    Concat(<<Word(7), Word(64), Word(32), Word(32), Word(3), WordAbc>>)

\* string[1] = ["abc"]: the fixed array is based at 32, the string at 64.
StringArrayTypes == <<TypeFixedArray(TypeString, 1)>>

StringArrayInput == Concat(<<Word(32), Word(32), Word(3), WordAbc>>)

\* bytes[] = ["abc"]: the length at 32, the elements based at 64, the bytes
\* at 96.
BytesArrayTypes == <<TypeArray(TypeBytes)>>

BytesArrayInput == Concat(<<Word(32), Word(1), Word(32), Word(3), WordAbc>>)

DecodeInputs ==
    { [bs |-> b, tys |-> t] : b \in Buffers, t \in TypeLists }
    \cup { [bs |-> DecodeManyInput, tys |-> DecodeManyTypes] }
    \cup { [bs |-> NestedFixedInput, tys |-> NestedFixedTypes],
           [bs |-> StringArrayInput, tys |-> StringArrayTypes],
           [bs |-> BytesArrayInput, tys |-> BytesArrayTypes] }

\* The calls of Value::decode: a type, a base address and a cursor, as the
\* recursive calls of decode_from_slice pass them.
DecodeTypes ==
    { TypeUint(256), TypeAddress, TypeFixedBytes(4), TypeFixedBytes(32),
      TypeString, TypeBytes,
      TypeFixedArray(TypeUint(256), 2), TypeFixedArray(TypeFixedBytes(4), 2),
      TypeFixedArray(TypeBytes, 1), TypeFixedArray(TypeString, 2),
      TypeFixedArray(TypeFixedArray(TypeBytes, 1), 1),
      TypeArray(TypeUint(256)), TypeArray(TypeBytes),
      TypeArray(TypeFixedArray(TypeUint(256), 2)) }

BaseAddrs == {0, 32, 64}

Cursors == {0, 32}

DecodeBuffers == Buffers \cup {NestedFixedInput, StringArrayInput, BytesArrayInput}

DecodeCalls ==
    { [bs |-> b, ty |-> t, base_addr |-> base, at |-> at] :
        b \in DecodeBuffers, t \in DecodeTypes, base \in BaseAddrs, at \in Cursors }

\* The i-th topic of a log: 32 bytes, different for every i.
Topic(i) == [k \in 1..32 |-> (16 * i + k) % 256]

TopicLists == { [i \in 1..n |-> Topic(i)] : n \in 0..MaxTopics }

\* The kinds of event input: a type and an indexed flag.
InputKinds ==
    { [type_ |-> TypeUint(256), indexed |-> "None"],
      [type_ |-> TypeUint(256), indexed |-> "Some(true)"],
      [type_ |-> TypeString, indexed |-> "Some(false)"],
      [type_ |-> TypeString, indexed |-> "Some(true)"],
      [type_ |-> TypeAddress, indexed |-> "Some(true)"],
      [type_ |-> TypeFixedBytes(4), indexed |-> "Some(true)"] }

ParamNames == <<"a", "b", "c", "d", "e">>

\* Further types of an indexed input, each tried as the only input of an event.
IndexedTypes ==
    { TypeBytes, TypeArray(TypeUint(256)), TypeFixedArray(TypeUint(256), 2),
      TypeTuple(<<TypeUint(256)>>), TypeBool, TypeInt(8) }

Events ==
    { Event("E", [i \in 1..Len(ks) |-> Param(ParamNames[i], ks[i].type_, ks[i].indexed)], anon) :
        ks \in UNION { [1..n -> InputKinds] : n \in 0..MaxInputs },
        anon \in BOOLEAN }
    \cup { Event("E", <<Param("a", t, "Some(true)")>>, anon) :
            t \in IndexedTypes, anon \in BOOLEAN }

\* A data buffer whose first three head words each serve as a uint and as the
\* offset of the string "abc".
DataAbc == Concat(<<Word(96), Word(96), Word(96), Word(3), WordAbc>>)

\* The same with a payload that is not UTF-8.
DataNotUtf8 == Concat(<<Word(96), Word(96), Word(96), Word(3), PadRight(<<255, 98, 99>>)>>)

DataBuffers == { <<>>, Word(96), DataAbc, DataNotUtf8 }

\* The log of the test test_decode_data_from_slice.
TestEvent ==
    Event("Test",
          << Param("x", TypeUint(256), "None"), Param("y", TypeUint(256), "Some(true)"),
             Param("x1", TypeUint(256), "None"), Param("y1", TypeUint(256), "Some(true)"),
             Param("s", TypeString, "None") >>,
          FALSE)

\* keccak256("Test(uint256,uint256,uint256,uint256,string)"), as the test gives it.
TestEventTopic ==
    <<245, 16, 143, 155, 255, 81, 235, 220, 159, 35, 207, 124,
      151, 111, 238, 228, 219, 218, 10, 199, 43, 182,
      18, 11, 240, 37, 106, 220, 114, 162, 142, 104>>

TestTopics == <<TestEventTopic, Word(10), Word(11)>>

TestData == Concat(<<Word(1), Word(2), Word(96), Word(3), WordAbc>>)

LogInputs ==
    { [evt |-> e, topics |-> t, data |-> d] : e \in Events, t \in TopicLists, d \in DataBuffers }
    \cup { [evt |-> TestEvent, topics |-> TestTopics, data |-> TestData] }

\* The decimal text of a number.
RECURSIVE ToDigits(_)
ToDigits(n) == IF n < 10 THEN <<Digits[n + 1]>> ELSE Append(ToDigits(n \div 10), Digits[(n % 10) + 1])

\* The text of a bracket suffix: `[]` or `[N]`.
SuffixText(size) == IF size.some THEN <<"[">> \o ToDigits(size.v) \o <<"]">> ELSE <<"[", "]">>

RECURSIVE SuffixesText(_)
SuffixesText(sizes) ==
    IF sizes = <<>> THEN <<>> ELSE SuffixText(Head(sizes)) \o SuffixesText(Tail(sizes))

Suffixes == { [some |-> FALSE], [some |-> TRUE, v |-> 2], [some |-> TRUE, v |-> 3] }

SuffixLists ==
    UNION { [1..n -> Suffixes] : n \in 0..MaxSuffixes }
    \cup { <<[some |-> TRUE, v |-> 10], [some |-> TRUE, v |-> 0]>>,
           <<[some |-> TRUE, v |-> 0], [some |-> FALSE], [some |-> TRUE, v |-> 256]>> }

\* The array type a list of at most one suffix makes of a type.
array_from_sizes(ty, sizes) == IF sizes = <<>> THEN ty ELSE array_from_size(ty, sizes[1])

\* Simple types with their texts.
BaseTypes ==
    { [text |-> <<"u", "i", "n", "t", "8">>, ty |-> TypeUint(8)],
      [text |-> <<"u", "i", "n", "t", "2", "5", "6">>, ty |-> TypeUint(256)],
      [text |-> <<"i", "n", "t", "1", "6">>, ty |-> TypeInt(16)],
      [text |-> <<"a", "d", "d", "r", "e", "s", "s">>, ty |-> TypeAddress],
      [text |-> <<"b", "o", "o", "l">>, ty |-> TypeBool],
      [text |-> <<"s", "t", "r", "i", "n", "g">>, ty |-> TypeString],
      [text |-> <<"b", "y", "t", "e", "s">>, ty |-> TypeBytes],
      [text |-> <<"b", "y", "t", "e", "s", "4">>, ty |-> TypeFixedBytes(4)] }

\* Tuples of one and of two members with their texts, and a nested tuple.
TupleMembers ==
    { b \in BaseTypes : b.ty \in {TypeUint(8), TypeBool, TypeString} }

TupleTypes ==
    { [text |-> <<"(">> \o a.text \o <<")">>, ty |-> TypeTuple(<<a.ty>>)] : a \in TupleMembers }
    \cup { [text |-> <<"(">> \o a.text \o <<",">> \o b.text \o <<")">>,
            ty |-> TypeTuple(<<a.ty, b.ty>>)] : a \in TupleMembers, b \in TupleMembers }
    \cup { [text |-> <<"(", "(", "b", "o", "o", "l", ")", ",", "u", "i", "n", "t", "8",
                       "[", "2", "]", ")">>,
            ty |-> TypeTuple(<<TypeTuple(<<TypeBool>>), TypeFixedArray(TypeUint(8), 2)>>)] }

\* The suffix lists tried after a tuple.
TupleSuffixLists == { sizes \in SuffixLists : Len(sizes) <= 2 }

TupleTexts == { t.text \o SuffixesText(sizes) : t \in TupleTypes, sizes \in TupleSuffixLists }

SimpleTexts == { b.text \o SuffixesText(sizes) : b \in BaseTypes, sizes \in SuffixLists }

\* Well-formed types with their texts: a simple type with at most one bracket
\* suffix, or a tuple.
ExactTypes ==
    { [text |-> b.text \o SuffixesText(sizes), ty |-> array_from_sizes(b.ty, sizes)] :
        b \in BaseTypes, sizes \in { l \in SuffixLists : Len(l) <= 1 } }
    \cup TupleTypes

\* Characters that start no type, put before a well-formed type.
LeadingJunk == { <<"x">>, <<"1">>, <<"]">>, <<",">>, <<" ">> }

\* Characters that continue no type, put after a well-formed type.
TrailingJunk == { <<"x">>, <<"]">>, <<"[">>, <<",">>, <<")">>, <<" ">> }

\* A digit after a well-formed type.
TrailingDigit == <<"9">>

JunkTexts ==
    { j \o t.text : j \in LeadingJunk, t \in ExactTypes }
    \cup { t.text \o j : t \in ExactTypes, j \in TrailingJunk \cup {TrailingDigit} }

\* The sized simple types: the text before the size and the type of a size.
SizedKinds ==
    { [text |-> <<"u", "i", "n", "t">>, tag |-> "Uint"],
      [text |-> <<"i", "n", "t">>, tag |-> "Int"],
      [text |-> <<"b", "y", "t", "e", "s">>, tag |-> "FixedBytes"] }

\* The suffix lists tried after a sized type.
SizedSuffixLists == { <<>>, <<[some |-> FALSE]>>, <<[some |-> TRUE, v |-> 2]>> }

\* 2^32 + 8 and 2^64 + 8 in decimal: sizes that would be 8 were they cut to
\* 32 or to 64 bits.
HugeSizes ==
    { <<"4", "2", "9", "4", "9", "6", "7", "3", "0", "4">>,
      <<"1", "8", "4", "4", "6", "7", "4", "4", "0", "7",
        "3", "7", "0", "9", "5", "5", "1", "6", "2", "4">> }

SizedTexts ==
    { k.text \o ds \o SuffixesText(sizes) :
        k \in SizedKinds,
        ds \in { ToDigits(n) : n \in 0..MaxSize } \cup HugeSizes,
        sizes \in SizedSuffixLists }

TypeTexts == SimpleTexts \cup TupleTexts \cup JunkTexts \cup SizedTexts

\* The functions and events whose signature is taken.
MaxParams == 2

SigTypes ==
    { TypeAddress, TypeFixedArray(TypeUint(56), 5),
      TypeTuple(<<TypeBool, TypeArray(TypeBytes)>>) }

SigParams ==
    { Param(n, t, ix) : n \in {"", "x"}, t \in SigTypes, ix \in {"None", "Some(true)"} }

SigParamLists == UNION { [1..n -> SigParams] : n \in 0..MaxParams }

\* Further types, each tried as the only input.
RenderTypes ==
    { TypeUint(256), TypeInt(8), TypeBool, TypeString, TypeBytes, TypeFixedBytes(4),
      TypeArray(TypeFixedArray(TypeString, 2)), TypeFixedArray(TypeArray(TypeString), 3),
      TypeTuple(<<TypeTuple(<<TypeUint(8)>>), TypeInt(16)>>) }

Outputs == { <<>>, <<Param("", TypeUint(256), "None")>> }

\* The function of the tests function_signature and function_method_id.
TestFunction ==
    Function("funname",
             << Param("", TypeAddress, "None"),
                Param("x", TypeFixedArray(TypeUint(56), 5), "None") >>,
             <<>>, "Pure")

Functions ==
    { Function(nm, ins, outs, m) :
        nm \in {"f", "funname"}, ins \in SigParamLists, outs \in Outputs,
        m \in {"Pure", "Payable"} }
    \cup { Function("f", <<Param("a", t, "None")>>, <<>>, "View") : t \in RenderTypes }
    \cup { TestFunction }

SigEvents ==
    { Event(nm, ins, anon) : nm \in {"E", "Test"}, ins \in SigParamLists, anon \in BOOLEAN }
    \cup { Event("E", <<Param("a", t, "Some(false)")>>, FALSE) : t \in RenderTypes }
    \cup { TestEvent }

-----------------------------------------------------------------------------
(* The state machine: one call of the library, then its outcome.           *)

Init ==
    /\ overflow_checks \in BOOLEAN
    /\ call = [op |-> "none"]
    /\ ret = [kind |-> "none"]

\* Value::decode_from_slice(bs, tys)
DecodeFromSlice ==
    /\ call.op = "none"
    /\ \E in \in DecodeInputs :
        /\ call' = [op |-> "decode_from_slice", bs |-> in.bs, tys |-> in.tys]
        /\ ret' = decode_from_slice(in.bs, in.tys)
    /\ UNCHANGED overflow_checks

\* Value::decode(bs, ty, base_addr, at)
Decode ==
    /\ call.op = "none"
    /\ \E in \in DecodeCalls :
        /\ call' = [op |-> "Value::decode", bs |-> in.bs, ty |-> in.ty,
                    base_addr |-> in.base_addr, at |-> in.at]
        /\ ret' = decode(in.bs, in.ty, in.base_addr, in.at)
    /\ UNCHANGED overflow_checks

\* Event::decode_data_from_slice(&self, topics, data)
DecodeDataFromSlice ==
    /\ call.op = "none"
    /\ \E in \in LogInputs :
        /\ call' = [op |-> "decode_data_from_slice", evt |-> in.evt,
                    topics |-> in.topics, data |-> in.data]
        /\ ret' = decode_data_from_slice(in.evt, in.topics, in.data)
    /\ UNCHANGED overflow_checks

\* parsers::parse_exact_type(input)
ParseExactType ==
    /\ call.op = "none"
    /\ \E text \in TypeTexts :
        /\ call' = [op |-> "parse_exact_type", input |-> text]
        /\ ret' = parse_exact_type(text)
    /\ UNCHANGED overflow_checks

\* Function::signature(&self)
FunctionSignature ==
    /\ call.op = "none"
    /\ \E fun \in Functions :
        /\ call' = [op |-> "Function::signature", fun |-> fun]
        /\ ret' = [kind |-> "ok", v |-> function_signature(fun)]
    /\ UNCHANGED overflow_checks

\* Function::method_id(&self)
FunctionMethodId ==
    /\ call.op = "none"
    /\ \E fun \in Functions :
        /\ call' = [op |-> "Function::method_id", fun |-> fun]
        /\ ret' = [kind |-> "ok", v |-> method_id(fun)]
    /\ UNCHANGED overflow_checks

\* Event::signature(&self)
EventSignature ==
    /\ call.op = "none"
    /\ \E event \in SigEvents :
        /\ call' = [op |-> "Event::signature", evt |-> event]
        /\ ret' = [kind |-> "ok", v |-> event_signature(event)]
    /\ UNCHANGED overflow_checks

\* Event::topic(&self)
EventTopic ==
    /\ call.op = "none"
    /\ \E event \in SigEvents :
        /\ call' = [op |-> "Event::topic", evt |-> event]
        /\ ret' = [kind |-> "ok", v |-> event_topic(event)]
    /\ UNCHANGED overflow_checks

Next ==
    \/ DecodeFromSlice
    \/ Decode
    \/ DecodeDataFromSlice
    \/ ParseExactType
    \/ FunctionSignature
    \/ FunctionMethodId
    \/ EventSignature
    \/ EventTopic

Spec == Init /\ [][Next]_vars

NextValues == DecodeFromSlice

SpecValues == Init /\ [][NextValues]_vars

NextDecode == Decode

SpecDecode == Init /\ [][NextDecode]_vars

NextEvent == DecodeDataFromSlice

SpecEvent == Init /\ [][NextEvent]_vars

NextParse == ParseExactType

SpecParse == Init /\ [][NextParse]_vars

NextSignature == FunctionSignature \/ FunctionMethodId \/ EventSignature \/ EventTopic

SpecSignature == Init /\ [][NextSignature]_vars

-----------------------------------------------------------------------------
(* Properties of Event::decode_data_from_slice                             *)

IsLogCall == call.op = "decode_data_from_slice"

\* The positions of the inputs that are indexed (flag TRUE) or not (FALSE)
\* among the first i inputs.
Positions(inputs, i, flag) == { j \in 1..i : is_indexed(inputs[j]) = flag }

NumIndexed(event) == Cardinality(Positions(event.inputs, Len(event.inputs), TRUE))

NumNonIndexed(event) == Cardinality(Positions(event.inputs, Len(event.inputs), FALSE))

\* The topics left once the event's own topic is set aside.
Remaining(event, tps) == IF event.anonymous THEN tps ELSE Tail(tps)

Stripped(event, tps) == event.anonymous \/ Len(tps) >= 1

\* The types of the non-indexed inputs, in declaration order.
DataTypes(event) ==
    LET kept == SelectSeq(event.inputs, LAMBDA p : ~is_indexed(p)) IN
    [k \in 1..Len(kept) |-> kept[k].type_]

HashedTags == {"String", "Bytes", "Array", "FixedArray", "Tuple"}

\* What an indexed input of type ty is to be given for a topic.
TopicValue(ty, topic) ==
    IF ty.tag \in HashedTags THEN ValueFixedBytes(topic)
    ELSE decode(topic, ty, 0, 0).value

\* C1: a successful decode_data_from_slice returns one (parameter, value) pair
\* per event input in declaration order; the i-th pair carries the i-th input;
\* the k-th indexed input has the value of the k-th remaining topic and the
\* k-th non-indexed input the k-th value decoded from the data buffer.
C1_PairsInDeclarationOrder ==
    (IsLogCall /\ ret.kind = "ok") =>
        LET inputs == call.evt.inputs
            rem == Remaining(call.evt, call.topics)
            vals == decode_from_slice(call.data, DataTypes(call.evt)).values
        IN  /\ Len(ret.params) = Len(inputs)
            /\ \A i \in 1..Len(inputs) :
                /\ ret.params[i][1] = inputs[i]
                /\ LET k == Cardinality(Positions(inputs, i, is_indexed(inputs[i]))) IN
                   ret.params[i][2] = IF is_indexed(inputs[i])
                                      THEN TopicValue(inputs[i].type_, rem[k])
                                      ELSE vals[k]

\* A successful decode of an event whose inputs alternate indexed,
\* non-indexed, indexed.
C1_Witness ==
    /\ IsLogCall /\ ret.kind = "ok"
    /\ Len(call.evt.inputs) >= 3
    /\ is_indexed(call.evt.inputs[1]) /\ ~is_indexed(call.evt.inputs[2])
    /\ is_indexed(call.evt.inputs[3])
    /\ Len(ret.params) = Len(call.evt.inputs)

\* C5: whenever the topics are stripped, the data decodes and there is a topic
\* for every indexed input, the call succeeds and every indexed input of a
\* hashed type (string, bytes, array, fixed array, tuple) is returned as the 32
\* bytes of its topic, every other indexed input as the topic decoded as one
\* value of the declared type.
C5_HashedTopicsAreOpaque ==
    (/\ IsLogCall
     /\ Stripped(call.evt, call.topics)
     /\ decode_from_slice(call.data, DataTypes(call.evt)).kind = "ok"
     /\ Len(Remaining(call.evt, call.topics)) >= NumIndexed(call.evt)) =>
        /\ ret.kind = "ok"
        /\ \A i \in 1..Len(call.evt.inputs) :
            LET inp == call.evt.inputs[i]
                k == Cardinality(Positions(call.evt.inputs, i, TRUE))
                topic == Remaining(call.evt, call.topics)[k]
            IN  is_indexed(inp) =>
                    IF inp.type_.tag \in HashedTags
                    THEN ret.params[i][2] = [tag |-> "FixedBytes", bytes |-> topic]
                    ELSE /\ decode_from_slice(topic, <<inp.type_>>).kind = "ok"
                         /\ ret.params[i][2] = decode_from_slice(topic, <<inp.type_>>).values[1]

\* A successful decode with an indexed string and an indexed address.
C5_Witness ==
    /\ IsLogCall /\ ret.kind = "ok"
    /\ Len(call.evt.inputs) >= 2
    /\ \E i, j \in 1..Len(call.evt.inputs) :
        /\ is_indexed(call.evt.inputs[i]) /\ call.evt.inputs[i].type_ = TypeString
        /\ ret.params[i][2].tag = "FixedBytes"
        /\ is_indexed(call.evt.inputs[j]) /\ call.evt.inputs[j].type_ = TypeAddress
        /\ ret.params[j][2].tag = "Address"

\* Topics to put in the place of topics[0].
OtherTopics == { Word(0), Topic(2), Topic(9) }

\* C6: for a non-anonymous event an empty topics list is an error, and
\* otherwise the outcome is the same whatever topics[0] holds and the k-th
\* indexed input takes topics[k], never topics[0]; for an anonymous event the
\* first indexed input takes topics[0].
C6_EventTopicStripped ==
    IsLogCall =>
        LET inputs == call.evt.inputs
            first == { i \in 1..Len(inputs) : Positions(inputs, i, TRUE) = {i} }
        IN  IF ~call.evt.anonymous
            THEN IF call.topics = <<>>
                 THEN ret = Err("missing event topic")
                 ELSE /\ \A w \in OtherTopics :
                            decode_data_from_slice(call.evt, <<w>> \o Tail(call.topics),
                                                   call.data) = ret
                      /\ ret.kind = "ok" =>
                            \A i \in 1..Len(inputs) :
                                is_indexed(inputs[i]) =>
                                    ret.params[i][2] =
                                        TopicValue(inputs[i].type_,
                                            call.topics[1 + Cardinality(Positions(inputs, i, TRUE))])
            ELSE ret.kind = "ok" =>
                    \A i \in first :
                        ret.params[i][2] = TopicValue(inputs[i].type_, call.topics[1])

\* A successful decode of a non-anonymous event with an indexed input.
C6_Witness ==
    /\ IsLogCall /\ ret.kind = "ok"
    /\ ~call.evt.anonymous
    /\ NumIndexed(call.evt) >= 1
    /\ Len(call.topics) >= 2

\* C7 as stated, of the calls that return: too few remaining topics always
\* give the insufficient-topics error.
C7_Original ==
    (/\ IsLogCall
     /\ ret.kind # "panic"
     /\ Stripped(call.evt, call.topics)
     /\ Len(Remaining(call.evt, call.topics)) < NumIndexed(call.evt)) =>
        ret = Err("insufficient topics entries")

\* C7, amended: when the topics are stripped, the data buffer decodes against
\* the non-indexed input types and fewer topics remain than there are indexed
\* inputs, the call fails with the insufficient-topics error and returns no
\* list of parameters.
C7_InsufficientTopics ==
    (/\ IsLogCall
     /\ Stripped(call.evt, call.topics)
     /\ decode_from_slice(call.data, DataTypes(call.evt)).kind = "ok"
     /\ Len(Remaining(call.evt, call.topics)) < NumIndexed(call.evt)) =>
        ret = Err("insufficient topics entries")

\* A call that ran out of topics after decoding an indexed and a non-indexed
\* input.
C7_Witness ==
    /\ IsLogCall
    /\ ret = Err("insufficient topics entries")
    /\ Len(Remaining(call.evt, call.topics)) = 1
    /\ NumIndexed(call.evt) = 2
    /\ NumNonIndexed(call.evt) = 1

\* C8: when the data buffer is shorter than the head words of the non-indexed
\* inputs, the call fails with the insufficient-data error.
C8_InsufficientData ==
    (/\ IsLogCall
     /\ Stripped(call.evt, call.topics)
     /\ Len(call.data) < WordSize * NumNonIndexed(call.evt)) =>
        ret = Err("insufficient data values")

\* The topics of a log without those after the last one an indexed input
\* takes.
WithoutSurplus(event, tps) ==
    SubSeq(tps, 1, (IF event.anonymous THEN 0 ELSE 1) + NumIndexed(event))

\* C19: when more topics remain after stripping than the event has indexed
\* inputs, the result is the result for the same log without the extra
\* topics, and the call succeeds whenever the data buffer decodes: the extra
\* topics are neither read nor rejected.
C19_SurplusTopicsIgnored ==
    (/\ IsLogCall
     /\ Stripped(call.evt, call.topics)
     /\ Len(Remaining(call.evt, call.topics)) > NumIndexed(call.evt)) =>
        /\ ret = decode_data_from_slice(call.evt, WithoutSurplus(call.evt, call.topics),
                                        call.data)
        /\ decode_from_slice(call.data, DataTypes(call.evt)).kind = "ok" =>
                /\ ret.kind = "ok"
                /\ Len(ret.params) = Len(call.evt.inputs)

\* A successful call with two topics more than the one indexed input takes,
\* and a non-indexed input decoded from the data.
C19_Witness ==
    /\ IsLogCall
    /\ ret.kind = "ok"
    /\ NumIndexed(call.evt) = 1
    /\ NumNonIndexed(call.evt) >= 1
    /\ Len(Remaining(call.evt, call.topics)) = 3

-----------------------------------------------------------------------------
(* Properties of Value::decode_from_slice                                  *)

IsDecodeCall == call.op = "decode_from_slice"

\* C2: decode_from_slice returns values or returns an error; it never panics.
C2_NeverPanics == IsDecodeCall => ret.kind \in {"ok", "err"}

\* The bytes a value of the type takes at the cursor.
RECURSIVE HeadSize(_)
HeadSize(ty) ==
    IF is_dynamic(ty) THEN WordSize
    ELSE IF ty.tag = "FixedBytes" THEN WordSize * ((ty.size + WordSize - 1) \div WordSize)
    ELSE IF ty.tag = "FixedArray" THEN ty.size * HeadSize(ty.elem)
    ELSE WordSize

RECURSIVE HeadOffset(_, _)
HeadOffset(types, i) ==
    IF i = 1 THEN 0 ELSE HeadOffset(types, i - 1) + HeadSize(types[i - 1])

\* C3: a successful decode_from_slice returns one value per type, in order,
\* the i-th being the value decoded with base address 0 at the cursor that is
\* the sum of the head sizes of the types before it; the tail of a dynamic
\* value is not counted.
C3_SequentialCursor ==
    (IsDecodeCall /\ ret.kind = "ok") =>
        /\ Len(ret.values) = Len(call.tys)
        /\ \A i \in 1..Len(call.tys) :
            LET r == decode(call.bs, call.tys[i], 0, HeadOffset(call.tys, i)) IN
            r.kind = "ok" /\ r.value = ret.values[i]

\* A successful decode of a dynamic value with a payload followed by another
\* value, and of a two-word static value followed by another value.
C3_Witness ==
    /\ IsDecodeCall /\ ret.kind = "ok"
    /\ \/ /\ call.tys = <<TypeString, TypeUint(256)>>
          /\ ret.values[1].bytes # <<>>
       \/ call.tys = DecodeManyTypes

\* C4: decoding an address takes bytes 12..32 of the word at the cursor.
C4_AddressLow20 ==
    (IsDecodeCall /\ call.tys = <<TypeAddress>> /\ Len(call.bs) >= WordSize) =>
        /\ ret.kind = "ok"
        /\ ret.values = <<ValueAddress(SubSeq(call.bs, 13, 32))>>

\* The decoder reaches a tuple at the top level: the types before it decode.
TupleReached ==
    \E i \in 1..Len(call.tys) :
        /\ call.tys[i].tag = "Tuple"
        /\ decode_from_slice(call.bs, SubSeq(call.tys, 1, i - 1)).kind = "ok"

\* C9: a type list in which the decoder reaches a tuple is decoded to an
\* error result, not to a panic and not to values.
C9_TupleIsDecodeError == (IsDecodeCall /\ TupleReached) => ret.kind = "err"

-----------------------------------------------------------------------------
(* Properties of parsers::parse_exact_type                                 *)

IsParseCall == call.op = "parse_exact_type"

\* wrap(sk, ... wrap(s1, base)): the last suffix is the outermost constructor.
RECURSIVE Wrapped(_, _)
Wrapped(base, sizes) ==
    IF sizes = <<>> THEN base
    ELSE LET last == sizes[Len(sizes)]
             inner == Wrapped(base, SubSeq(sizes, 1, Len(sizes) - 1))
         IN  IF last.some THEN TypeFixedArray(inner, last.v) ELSE TypeArray(inner)

\* C10: the text of a simple type followed by bracket suffixes s1..sk parses,
\* with nothing left, to the type in which s1 is applied first and sk last, so
\* that the rightmost bracket is the outermost constructor.
C10_RightmostBracketOutermost ==
    IsParseCall =>
        \A b \in BaseTypes, sizes \in SuffixLists :
            call.input = b.text \o SuffixesText(sizes) =>
                ret = POk(Wrapped(b.ty, sizes), <<>>)

\* `string[2][]` parsed to Array(FixedArray(String, 2)).
C10_Witness ==
    /\ IsParseCall
    /\ call.input = <<"s", "t", "r", "i", "n", "g", "[", "2", "]", "[", "]">>
    /\ ret.ok
    /\ ret.out = TypeArray(TypeFixedArray(TypeString, 2))

\* C11: the text of a tuple parses to the tuple of its member types, and
\* followed by bracket suffixes it parses, with nothing left, to the arrays of
\* that tuple: `T[]` to Array(Tuple(fields)), `T[N]` to
\* FixedArray(Tuple(fields), N).
C11_TupleArrayBase ==
    IsParseCall =>
        \A t \in TupleTypes, sizes \in TupleSuffixLists :
            call.input = t.text \o SuffixesText(sizes) =>
                ret = POk(Wrapped(t.ty, sizes), <<>>)

\* What the parser does with a tuple: alone it parses to the tuple, but
\* followed by a bracket suffix it is rejected, because parse_array takes only
\* a simple type as its base and parse_tuple leaves the suffix unconsumed.
C11_TupleArrayRejected ==
    IsParseCall =>
        \A t \in TupleTypes, sizes \in TupleSuffixLists :
            call.input = t.text \o SuffixesText(sizes) =>
                IF sizes = <<>> THEN ret = POk(t.ty, <<>>) ELSE ret = PErr

\* C12: parse_exact_type succeeds only with nothing of the input left: a
\* well-formed type parses to its type, and the same text with a character
\* before it or after it that makes the whole no type (a letter, a bracket, a
\* comma, a parenthesis, a space, a digit) is rejected.  A digit after `bytes`
\* makes the whole the type bytes9, which parses with nothing left.
C12_WholeInputConsumed ==
    IsParseCall =>
        /\ ret.ok => ret.rest = <<>>
        /\ \A t \in ExactTypes :
            /\ call.input = t.text => ret = POk(t.ty, <<>>)
            /\ \A j \in LeadingJunk : call.input = j \o t.text => ret = PErr
            /\ \A j \in TrailingJunk : call.input = t.text \o j => ret = PErr
            /\ call.input = t.text \o TrailingDigit =>
                    IF t.ty = TypeBytes THEN ret = POk(TypeFixedBytes(9), <<>>)
                    ELSE ret = PErr

\* `uint8[2]` followed by a digit: the grammar matches a prefix and the
\* leftover makes the call fail.
C12_Witness ==
    /\ IsParseCall
    /\ call.input = <<"u", "i", "n", "t", "8", "[", "2", "]", "9">>
    /\ parse_type(call.input) = POk(TypeFixedArray(TypeUint(8), 2), <<"9">>)
    /\ ret = PErr

\* The type of a sized kind.
SizedType(k, n) == [tag |-> k.tag, size |-> n]

\* The sizes the grammar allows.
SizeAllowed(k, n) ==
    IF k.tag = "FixedBytes" THEN n >= 1 /\ n <= 32
    ELSE n >= 8 /\ n <= 256 /\ n % 8 = 0

\* C13: `uintN` and `intN` parse to Uint(N) and Int(N) exactly when N is a
\* multiple of 8 from 8 to 256, `bytesN` to FixedBytes(N) exactly when N is
\* from 1 to 32, and `bytes` to Bytes; with any other size the text is
\* rejected, alone and as the base of an array, and an allowed size as the
\* base of an array gives the array of that type.
C13_SizeBounds ==
    IsParseCall =>
        /\ call.input = <<"b", "y", "t", "e", "s">> => ret = POk(TypeBytes, <<>>)
        /\ \A k \in SizedKinds :
            tag(k.text, call.input).ok =>
                \A sizes \in SizedSuffixLists :
                    /\ \A n \in 0..MaxSize :
                        call.input = k.text \o ToDigits(n) \o SuffixesText(sizes) =>
                            IF SizeAllowed(k, n)
                            THEN ret = POk(array_from_sizes(SizedType(k, n), sizes), <<>>)
                            ELSE ret = PErr
                    /\ \A ds \in HugeSizes :
                        call.input = k.text \o ds \o SuffixesText(sizes) => ret = PErr

\* An allowed size parsed and sizes around the bounds rejected: uint256[2]
\* gives the array of Uint(256), uint264, int4, bytes0 and bytes33[] give an
\* error.
C13_Witness ==
    /\ IsParseCall
    /\ \/ /\ call.input = <<"u", "i", "n", "t", "2", "5", "6", "[", "2", "]">>
          /\ ret = POk(TypeFixedArray(TypeUint(256), 2), <<>>)
       \/ /\ call.input \in { <<"u", "i", "n", "t", "2", "6", "4">>,
                               <<"i", "n", "t", "4">>,
                               <<"b", "y", "t", "e", "s", "0">>,
                               <<"b", "y", "t", "e", "s", "3", "3", "[", "]">> }
          /\ ret = PErr

-----------------------------------------------------------------------------
(* Properties of the signatures, selectors and topics                      *)

\* The canonical texts of the types whose signature is taken.
CanonicalTexts ==
    { <<TypeAddress, "address">>,
      <<TypeFixedArray(TypeUint(56), 5), "uint56[5]">>,
      <<TypeTuple(<<TypeBool, TypeArray(TypeBytes)>>), "(bool,bytes[])">>,
      <<TypeUint(256), "uint256">>, <<TypeInt(8), "int8">>, <<TypeBool, "bool">>,
      <<TypeString, "string">>, <<TypeBytes, "bytes">>, <<TypeFixedBytes(4), "bytes4">>,
      <<TypeArray(TypeFixedArray(TypeString, 2)), "string[2][]">>,
      <<TypeFixedArray(TypeArray(TypeString), 3), "string[][3]">>,
      <<TypeTuple(<<TypeTuple(<<TypeUint(8)>>), TypeInt(16)>>), "((uint8),int16)">> }

CanonicalText(ty) == (CHOOSE p \in CanonicalTexts : p[1] = ty)[2]

\* The types of the inputs, in declaration order.
InputTypes(inputs) == [i \in 1..Len(inputs) |-> inputs[i].type_]

\* t1,t2,...,tn: each text after the first preceded by one comma.
RECURSIVE CommaSeparated(_)
CommaSeparated(types) ==
    IF types = <<>> THEN ""
    ELSE LET n == Len(types)
             front == CommaSeparated(SubSeq(types, 1, n - 1))
         IN  IF n = 1 THEN CanonicalText(types[n])
             ELSE front \o "," \o CanonicalText(types[n])

\* name(t1,t2,...,tn), of a name and a list of types only.
SignatureOf(name, types) == name \o "(" \o CommaSeparated(types) \o ")"

\* The same function with other parameter names, indexed flags, outputs and
\* mutability.
FunctionVariant(fun) ==
    Function(fun.name,
             [i \in 1..Len(fun.inputs) |-> Param("renamed", fun.inputs[i].type_, "Some(false)")],
             <<Param("out", TypeBool, "None")>>, "NonPayable")

\* The same event with other parameter names, indexed flags and anonymity.
EventVariant(event) ==
    Event(event.name,
          [i \in 1..Len(event.inputs) |-> Param("renamed", event.inputs[i].type_, "Some(false)")],
          ~event.anonymous)

\* C14: the signature of a function and of an event is name(t1,...,tn) with
\* the canonical texts of the input types in declaration order, separated by
\* single commas and with no space; the selector is the first four bytes and
\* the event topic the 32 bytes of keccak256 of that string, and both are
\* those of the same function or event with other parameter names, indexed
\* flags, outputs, mutability or anonymity.
C14_SignatureOfNameAndTypes ==
    /\ call.op = "Function::signature" =>
            ret.v = SignatureOf(call.fun.name, InputTypes(call.fun.inputs))
    /\ call.op = "Event::signature" =>
            ret.v = SignatureOf(call.evt.name, InputTypes(call.evt.inputs))
    /\ call.op = "Function::method_id" =>
            /\ ret.v = first_four_bytes(
                          keccak256(SignatureOf(call.fun.name, InputTypes(call.fun.inputs))))
            /\ ret.v = method_id(FunctionVariant(call.fun))
    /\ call.op = "Event::topic" =>
            /\ ret.v = keccak256(SignatureOf(call.evt.name, InputTypes(call.evt.inputs)))
            /\ ret.v = event_topic(EventVariant(call.evt))

\* The signature of the function of the tests, funname(address,uint56[5]),
\* and the topic of an event of two inputs with names and indexed flags.
C14_Witness ==
    \/ /\ call.op = "Function::signature"
       /\ call.fun = TestFunction
       /\ ret.v = "funname(address,uint56[5])"
    \/ /\ call.op = "Event::topic"
       /\ Len(call.evt.inputs) = 2
       /\ call.evt.inputs[1].name = "x"
       /\ call.evt.inputs[2].indexed = "Some(true)"

-----------------------------------------------------------------------------
(* Properties of Value::decode                                             *)

IsDecodeAt == call.op = "Value::decode"

\* The outcome the program gives agrees with the outcome the rule gives
\* whenever either of them is a value.
AgreesWith(expected) ==
    /\ expected.kind = "ok" => ret = expected
    /\ ret.kind = "ok" => ret = expected

\* A fixed array of n dynamic elements at (base_addr, at): the offset word at
\* base_addr + at, the elements one after the other from cursor 0 of the base
\* base_addr + offset, 32 bytes consumed at the cursor.
RebasedFixedArray(buf, elem, n, base_addr, at) ==
    Bind(add(base_addr, at), LAMBDA a :
    Bind(read_usize(buf, a.v), LAMBDA offset :
    Bind(add(base_addr, offset.v), LAMBDA b :
    Bind(decode_elems(buf, elem, b.v, 0, n, 0, <<>>, 0), LAMBDA r :
    Ok(ValueArray(r.values), 32)))))

\* C15: decoding a fixed array of dynamic elements at any base address and
\* cursor reads the offset word at base_addr + at, decodes the elements
\* sequentially from cursor 0 of the base base_addr + offset, and consumes 32
\* bytes.
C15_FixedArrayRebase ==
    (IsDecodeAt /\ call.ty.tag = "FixedArray" /\ is_dynamic(call.ty.elem)) =>
        AgreesWith(RebasedFixedArray(call.bs, call.ty.elem, call.ty.size,
                                     call.base_addr, call.at))

\* C15 at base address 0 only, where the address of the offset word is the
\* cursor itself.
C15_FixedArrayRebaseAtZero ==
    (IsDecodeAt /\ call.ty.tag = "FixedArray" /\ is_dynamic(call.ty.elem)
        /\ call.base_addr = 0) =>
        AgreesWith(RebasedFixedArray(call.bs, call.ty.elem, call.ty.size,
                                     call.base_addr, call.at))

\* The payload of a string or of bytes at (base_addr, at): the offset word at
\* base_addr + at, the length word at base_addr + offset, the payload of
\* that length from base_addr + offset + 32.
Payload(buf, base_addr, at) ==
    Bind(add(base_addr, at), LAMBDA a :
    Bind(read_usize(buf, a.v), LAMBDA offset :
    Bind(add(base_addr, offset.v), LAMBDA len_at :
    Bind(read_usize(buf, len_at.v), LAMBDA length :
    Bind(add(len_at.v, 32), LAMBDA payload_at :
    read(buf, payload_at.v, length.v))))))

\* The value of a string or of bytes with that payload, 32 bytes consumed.
OfPayload(ty, p) ==
    IF p.kind # "ok" THEN p
    ELSE IF ty.tag = "Bytes" THEN Ok(ValueBytes(p.bytes), 32)
    ELSE IF from_utf8(p.bytes) THEN Ok(ValueString(p.bytes), 32)
    ELSE Err("invalid utf-8")

\* C16: decoding a string or bytes at any base address and cursor reads the
\* offset word at base_addr + at, the length word at base_addr + offset and
\* the payload from base_addr + offset + 32, and consumes 32 bytes; a string
\* and bytes are read at the same addresses.
C16_StringBytesAddresses ==
    (IsDecodeAt /\ call.ty.tag \in {"String", "Bytes"}) =>
        AgreesWith(OfPayload(call.ty, Payload(call.bs, call.base_addr, call.at)))

\* C16 of bytes alone.
C16_BytesAddresses ==
    (IsDecodeAt /\ call.ty.tag = "Bytes") =>
        AgreesWith(OfPayload(call.ty, Payload(call.bs, call.base_addr, call.at)))

\* The elements of a fixed array at (base_addr, at) as the rule of fixed
\* arrays reads them: re-based by the offset word at base_addr + at when the
\* elements are dynamic, in place otherwise.
FixedArrayElements(buf, elem, n, base_addr, at) ==
    IF is_dynamic(elem)
    THEN RebasedFixedArray(buf, elem, n, base_addr, at)
    ELSE Bind(decode_elems(buf, elem, base_addr, at, n, 0, <<>>, 0), LAMBDA r :
         Ok(ValueArray(r.values), r.consumed))

\* An array at (base_addr, at): the offset word at base_addr + at, the length
\* word at base_addr + offset, the elements those of the fixed array of that
\* length based at base_addr + offset with cursor 32, 32 bytes consumed.
ArrayAsFixedArray(buf, elem, base_addr, at) ==
    Bind(add(base_addr, at), LAMBDA a :
    Bind(read_usize(buf, a.v), LAMBDA offset :
    Bind(add(base_addr, offset.v), LAMBDA len_at :
    Bind(read_usize(buf, len_at.v), LAMBDA length :
    Bind(FixedArrayElements(buf, elem, length.v, len_at.v, 32), LAMBDA r :
    Ok(r.value, 32))))))

\* C17: decoding an array at (base_addr, at) reads the offset word at
\* base_addr + at and the length word at base_addr + offset, gives the
\* elements of the fixed array of that length based at base_addr + offset
\* with cursor 32, decoded by the rule of fixed arrays, and consumes 32 bytes.
C17_ArrayAsFixedArray ==
    (IsDecodeAt /\ call.ty.tag = "Array") =>
        AgreesWith(ArrayAsFixedArray(call.bs, call.ty.elem, call.base_addr, call.at))

\* C17 of arrays of static elements alone.
C17_ArrayOfStaticAsFixedArray ==
    (IsDecodeAt /\ call.ty.tag = "Array" /\ ~is_dynamic(call.ty.elem)) =>
        AgreesWith(ArrayAsFixedArray(call.bs, call.ty.elem, call.base_addr, call.at))

\* C18: the size a successful decode reports as consumed is that of the type
\* alone: 32 for a uint, int, address, bool and for every dynamic type, the
\* size padded to a multiple of 32 for fixed bytes, the sum of the elements'
\* sizes for a fixed array of static elements; it is a multiple of 32.
C18_ConsumedOfTypeAlone ==
    (IsDecodeAt /\ ret.kind = "ok") =>
        /\ ret.consumed = HeadSize(call.ty)
        /\ ret.consumed % 32 = 0
        /\ is_dynamic(call.ty) \/ call.ty.tag \in {"Uint", "Int", "Address", "Bool"} =>
                ret.consumed = 32

\* Successful decodes of four bytes, consuming 32, of two four-byte elements
\* in place, consuming 64, and of a string with a payload, consuming 32.
C18_Witness ==
    /\ IsDecodeAt /\ ret.kind = "ok"
    /\ \/ call.ty = TypeFixedBytes(4) /\ ret.consumed = 32
       \/ call.ty = TypeFixedArray(TypeFixedBytes(4), 2) /\ ret.consumed = 64
       \/ call.ty = TypeString /\ ret.value.bytes # <<>> /\ ret.consumed = 32

====
